---- MODULE Spec2Model ----
(***************************************************************************)
(* A model of the `futuro` polling algebra: the Async result type, the    *)
(* Future combinators of src/lib.rs (Map, AndThen, Join, Select,          *)
(* SelectNext, Fuse, wait) and the InfiniteStream combinators of          *)
(* src/infinite_stream.rs (Merge, InfiniteWait).                          *)
(*                                                                         *)
(* Every `poll` is a pure operator from the receiver's state before the   *)
(* call to a record [self, ret, log]: the receiver's state after the      *)
(* call, what the call returned (an Async value, or a panic), and the     *)
(* calls it made on its own children, in order.  A driver owns one        *)
(* top-level object and polls it; `history` keeps what each call gave.    *)
(***************************************************************************)
EXTENDS Integers, Sequences, FiniteSets, TLC

\* Largest number of not-ready polls a primitive future answers before Ready.
MaxDelay == 2
\* Items are the integers 0..MaxVal.
MaxVal == 1
\* Longest readiness schedule a primitive stream repeats.
SchedLen == 3
MaxLen == 2
\* Calls the driver makes on one object: enough to resolve two futures in
\* sequence and then to poll past the terminal state.
MaxPolls == 2 * MaxDelay + 3

Values == 0..MaxVal
Delays == 0..MaxDelay
\* The pure transforms A::Item -> T.
Fns == [Values -> Values]
\* What a primitive future does when polled after it has resolved: the
\* trait leaves it open, so each primitive carries one of the outcomes.
AfterModes == {"Ready", "Panic"}

(***************************************************************************)
(* Async<T>, Option<T>, and the abort of a call.                          *)
(***************************************************************************)
NotReady == [tag |-> "NotReady"]
Ready(t) == [tag |-> "Ready", val |-> t]
Panic(msg) == [tag |-> "Panic", msg |-> msg]

is_not_ready(r) == r.tag = "NotReady"
is_ready(r) == ~is_not_ready(r)

\* A reusable transform F: FnMut(S::Item) -> B on stream items, which are
\* numbers: t |-> mul * t + add.
Affine(mul, add) == [tag |-> "FnMut", mul |-> mul, add |-> add]
call_mut(f, t) == f.mul * t + f.add

\* Async::map that takes every value for not ready.
Async_map_swallows(self, f) == NotReady

\* Async::map
Async_map(self, f) ==
    IF self.tag = "NotReady" THEN NotReady
    ELSE Ready(call_mut(f, self.val))

None == [tag |-> "None"]
Some(x) == [tag |-> "Some", val |-> x]

\* The effect of one call: receiver afterwards, result, calls made on children.
Out(self, ret, log) == [self |-> self, ret |-> ret, log |-> log]
Ev(id, ret) == [id |-> id, ret |-> ret]
Called(t) == [tag |-> "Called", val |-> t]

(***************************************************************************)
(* A primitive future: not ready on its first k polls, Ready(v) on poll   *)
(* k+1.  `polls` counts the polls it has received.                        *)
(***************************************************************************)
Leaf(k, v, after) ==
    [tag |-> "Leaf", k |-> k, v |-> v, after |-> after, polls |-> 0]

Leaf_poll(self) ==
    LET ret == IF self.polls < self.k THEN NotReady
               ELSE IF self.polls = self.k THEN Ready(self.v)
               ELSE IF self.after = "Ready" THEN Ready(self.v)
               ELSE Panic("primitive polled after completion")
    IN Out([self EXCEPT !.polls = @ + 1], ret, <<>>)

\* A single-use factory F: FnOnce(A::Item) -> B; the future it builds
\* resolves to fn[a] after m not-ready polls.
Factory(fn, m, after) == [tag |-> "FnOnce", fn |-> fn, m |-> m, after |-> after]
call_once(f, a) == Leaf(f.m, f.fn[a], f.after)

RECURSIVE poll(_)

(***************************************************************************)
(* AndThen                                                                 *)
(***************************************************************************)
AndThen_First(a, f) == [tag |-> "AndThen", state |-> "First", a |-> a, f |-> f]
AndThen_Second(b) == [tag |-> "AndThen", state |-> "Second", b |-> b]
AndThen_Done == [tag |-> "AndThen", state |-> "Done"]

and_then(self, f) == AndThen_First(self, f)

\* A tail of AndThen::poll that polls B a second time when it is not ready.
AndThen_poll_b_spins(b, log) ==
    LET r1 == poll(b)
        rb == IF r1.ret.tag = "NotReady" THEN poll(r1.self) ELSE r1
        lg == log \o (IF r1.ret.tag = "NotReady" THEN <<Ev("b", r1.ret)>> ELSE <<>>)
                  \o <<Ev("b", rb.ret)>>
    IN CASE rb.ret.tag = "NotReady" -> Out(AndThen_Second(rb.self), NotReady, lg)
         [] rb.ret.tag = "Ready" -> Out(AndThen_Done, Ready(rb.ret.val), lg)
         [] OTHER -> Out(AndThen_Done, rb.ret, lg)

\* The tail of AndThen::poll: `match b.poll()`.
AndThen_poll_b(b, log) ==
    LET rb == poll(b)
        lg == log \o <<Ev("b", rb.ret)>>
    IN CASE rb.ret.tag = "NotReady" -> Out(AndThen_Second(rb.self), NotReady, lg)
         [] rb.ret.tag = "Ready" -> Out(AndThen_Done, Ready(rb.ret.val), lg)
         [] OTHER -> Out(AndThen_Done, rb.ret, lg)

\* AndThen::poll that leaves B's first poll to the next call.
AndThen_poll_idle(self) ==
    LET state == self
    IN CASE state.state = "First" ->
              LET ra == poll(state.a)
                  lg == <<Ev("a", ra.ret)>>
              IN CASE ra.ret.tag = "NotReady" ->
                        Out(AndThen_First(ra.self, state.f), NotReady, lg)
                   [] ra.ret.tag = "Ready" ->
                        Out(AndThen_Second(call_once(state.f, ra.ret.val)), NotReady,
                            lg \o <<Ev("f", Called(ra.ret.val))>>)
                   [] OTHER -> Out(AndThen_Done, ra.ret, lg)
         [] state.state = "Second" -> AndThen_poll_b(state.b, <<>>)
         [] OTHER -> Out(AndThen_Done, Panic("cannot poll and_then twice"), <<>>)

\* AndThen::poll that goes back to A when the B it has just built is not ready.
AndThen_poll_restarts(self) ==
    LET state == self
    IN CASE state.state = "First" ->
              LET ra == poll(state.a)
                  lg == <<Ev("a", ra.ret)>>
              IN CASE ra.ret.tag = "NotReady" ->
                        Out(AndThen_First(ra.self, state.f), NotReady, lg)
                   [] ra.ret.tag = "Ready" ->
                        LET r == AndThen_poll_b(call_once(state.f, ra.ret.val),
                                                lg \o <<Ev("f", Called(ra.ret.val))>>)
                        IN IF r.ret.tag = "NotReady"
                           THEN Out(AndThen_First(ra.self, state.f), NotReady, r.log)
                           ELSE r
                   [] OTHER -> Out(AndThen_Done, ra.ret, lg)
         [] state.state = "Second" -> AndThen_poll_b(state.b, <<>>)
         [] OTHER -> Out(AndThen_Done, Panic("cannot poll and_then twice"), <<>>)

AndThen_poll(self) ==
    \* let state = mem::replace(self, AndThen::Done)
    LET state == self
    IN CASE state.state = "First" ->
              LET ra == poll(state.a)
                  lg == <<Ev("a", ra.ret)>>
              IN CASE ra.ret.tag = "NotReady" ->
                        Out(AndThen_First(ra.self, state.f), NotReady, lg)
                   [] ra.ret.tag = "Ready" ->
                        AndThen_poll_b(call_once(state.f, ra.ret.val),
                                       lg \o <<Ev("f", Called(ra.ret.val))>>)
                   [] OTHER -> Out(AndThen_Done, ra.ret, lg)
         [] state.state = "Second" -> AndThen_poll_b(state.b, <<>>)
         [] OTHER -> Out(AndThen_Done, Panic("cannot poll and_then twice"), <<>>)

(***************************************************************************)
(* Fuse                                                                    *)
(***************************************************************************)
Fuse(future) == [tag |-> "Fuse", future |-> future]

fuse(self) == Fuse(Some(self))

\* Fuse::poll that returns Ready without emptying the slot.
Fuse_poll_keeps(self) ==
    IF self.future.tag = "None" THEN Out(self, NotReady, <<>>)
    ELSE LET r == poll(self.future.val)
             lg == <<Ev("future", r.ret)>>
         IN CASE r.ret.tag = "Ready" -> Out(Fuse(Some(r.self)), Ready(r.ret.val), lg)
              [] r.ret.tag = "NotReady" -> Out(Fuse(Some(r.self)), NotReady, lg)
              [] OTHER -> Out(Fuse(Some(r.self)), r.ret, lg)

\* Fuse::poll that empties its slot even when the future is not ready.
Fuse_poll_takes(self) ==
    IF self.future.tag = "None" THEN Out(self, NotReady, <<>>)
    ELSE LET r == poll(self.future.val)
             lg == <<Ev("future", r.ret)>>
         IN CASE r.ret.tag = "Ready" -> Out(Fuse(None), Ready(r.ret.val), lg)
              [] r.ret.tag = "NotReady" -> Out(Fuse(None), NotReady, lg)
              [] OTHER -> Out(Fuse(None), r.ret, lg)

Fuse_poll(self) ==
    IF self.future.tag = "None" THEN Out(self, NotReady, <<>>)
    ELSE LET r == poll(self.future.val)
             lg == <<Ev("future", r.ret)>>
         IN CASE r.ret.tag = "Ready" -> Out(Fuse(None), Ready(r.ret.val), lg)
              [] r.ret.tag = "NotReady" -> Out(Fuse(Some(r.self)), NotReady, lg)
              [] OTHER -> Out(Fuse(Some(r.self)), r.ret, lg)

(***************************************************************************)
(* Join                                                                    *)
(***************************************************************************)
Join_BothRunning(a, b) == [tag |-> "Join", state |-> "BothRunning", a |-> a, b |-> b]
Join_Done == [tag |-> "Join", state |-> "Done"]
\* FirstDone(A::Item, B) and SecondDone(A, B::Item) hold one item and one future.
Join_FirstDone(a, b) == [tag |-> "Join", state |-> "FirstDone", a_item |-> a, b |-> b]
Join_SecondDone(a, b) == [tag |-> "Join", state |-> "SecondDone", a |-> a, b_item |-> b]

join(self, other) == Join_BothRunning(self, other)

\* Join::poll in BothRunning that leaves Done behind when neither is ready.
Join_poll_BothRunning_dropped(state) ==
    LET ra == poll(state.a)
        la == <<Ev("a", ra.ret)>>
    IN IF ra.ret.tag = "Panic" THEN Out(Join_Done, ra.ret, la)
       ELSE
       LET rb == poll(state.b)
           lg == la \o <<Ev("b", rb.ret)>>
       IN CASE rb.ret.tag = "Panic" -> Out(Join_Done, rb.ret, lg)
            [] is_not_ready(ra.ret) /\ is_not_ready(rb.ret) ->
                 Out(Join_Done, NotReady, lg)
            [] is_not_ready(ra.ret) /\ rb.ret.tag = "Ready" ->
                 Out(Join_SecondDone(ra.self, rb.ret.val), NotReady, lg)
            [] ra.ret.tag = "Ready" /\ is_not_ready(rb.ret) ->
                 Out(Join_FirstDone(ra.ret.val, rb.self), NotReady, lg)
            [] OTHER ->
                 Out(Join_Done, Ready(<<ra.ret.val, rb.ret.val>>), lg)

\* Join::poll in BothRunning that polls B only when A is not ready.
Join_poll_BothRunning_lazy(state) ==
    LET ra == poll(state.a)
        la == <<Ev("a", ra.ret)>>
    IN CASE ra.ret.tag = "Panic" -> Out(Join_Done, ra.ret, la)
         [] ra.ret.tag = "Ready" ->
              Out(Join_FirstDone(ra.ret.val, state.b), NotReady, la)
         [] OTHER ->
              LET rb == poll(state.b)
                  lg == la \o <<Ev("b", rb.ret)>>
              IN CASE rb.ret.tag = "Panic" -> Out(Join_Done, rb.ret, lg)
                   [] rb.ret.tag = "Ready" ->
                        Out(Join_SecondDone(ra.self, rb.ret.val), NotReady, lg)
                   [] OTHER ->
                        Out(Join_BothRunning(ra.self, rb.self), NotReady, lg)

\* The arm Join::BothRunning(mut a, mut b): match (a.poll(), b.poll()).
Join_poll_BothRunning(state) ==
    LET ra == poll(state.a)
        la == <<Ev("a", ra.ret)>>
    IN IF ra.ret.tag = "Panic" THEN Out(Join_Done, ra.ret, la)
       ELSE
       LET rb == poll(state.b)
           lg == la \o <<Ev("b", rb.ret)>>
       IN CASE rb.ret.tag = "Panic" -> Out(Join_Done, rb.ret, lg)
            [] is_not_ready(ra.ret) /\ is_not_ready(rb.ret) ->
                 Out(Join_BothRunning(ra.self, rb.self), NotReady, lg)
            [] is_not_ready(ra.ret) /\ rb.ret.tag = "Ready" ->
                 Out(Join_SecondDone(ra.self, rb.ret.val), NotReady, lg)
            [] ra.ret.tag = "Ready" /\ is_not_ready(rb.ret) ->
                 Out(Join_FirstDone(ra.ret.val, rb.self), NotReady, lg)
            [] OTHER ->
                 Out(Join_Done, Ready(<<ra.ret.val, rb.ret.val>>), lg)

\* The arm Join::FirstDone that does not put the state back when B is not ready.
Join_poll_FirstDone_dropped(state) ==
    LET rb == poll(state.b)
        lg == <<Ev("b", rb.ret)>>
    IN CASE rb.ret.tag = "NotReady" -> Out(Join_Done, NotReady, lg)
         [] rb.ret.tag = "Ready" ->
              Out(Join_Done, Ready(<<state.a_item, rb.ret.val>>), lg)
         [] OTHER -> Out(Join_Done, rb.ret, lg)

\* The arm Join::FirstDone(a, mut b).
Join_poll_FirstDone(state) ==
    LET rb == poll(state.b)
        lg == <<Ev("b", rb.ret)>>
    IN CASE rb.ret.tag = "NotReady" ->
              Out(Join_FirstDone(state.a_item, rb.self), NotReady, lg)
         [] rb.ret.tag = "Ready" ->
              Out(Join_Done, Ready(<<state.a_item, rb.ret.val>>), lg)
         [] OTHER -> Out(Join_Done, rb.ret, lg)

\* Join::poll in SecondDone that builds the pair in the order of arrival.
Join_poll_SecondDone_swapped(state) ==
    LET ra == poll(state.a)
        lg == <<Ev("a", ra.ret)>>
    IN CASE ra.ret.tag = "NotReady" ->
              Out(Join_SecondDone(ra.self, state.b_item), NotReady, lg)
         [] ra.ret.tag = "Ready" ->
              Out(Join_Done, Ready(<<state.b_item, ra.ret.val>>), lg)
         [] OTHER -> Out(Join_Done, ra.ret, lg)

\* The arm Join::SecondDone(mut a, b).
Join_poll_SecondDone(state) ==
    LET ra == poll(state.a)
        lg == <<Ev("a", ra.ret)>>
    IN CASE ra.ret.tag = "NotReady" ->
              Out(Join_SecondDone(ra.self, state.b_item), NotReady, lg)
         [] ra.ret.tag = "Ready" ->
              Out(Join_Done, Ready(<<ra.ret.val, state.b_item>>), lg)
         [] OTHER -> Out(Join_Done, ra.ret, lg)

Join_poll(self) ==
    \* let state = mem::replace(self, Join::Done)
    LET state == self
    IN CASE state.state = "BothRunning" -> Join_poll_BothRunning(state)
         [] state.state = "Done" ->
              Out(Join_Done, Panic("cannot poll join twice"), <<>>)
         [] state.state = "FirstDone" -> Join_poll_FirstDone(state)
         [] state.state = "SecondDone" -> Join_poll_SecondDone(state)

(***************************************************************************)
(* Map                                                                     *)
(***************************************************************************)
Map(future, f) == [tag |-> "Map", future |-> future, f |-> f]

map(self, f) == Map(self, Some(f))

\* Map::poll that answers NotReady once its transform is gone.
Map_poll_lenient(self) ==
    IF self.f.tag = "None" THEN Out(self, NotReady, <<>>)
    ELSE LET f == self.f.val
             r == poll(self.future)
             lg == <<Ev("future", r.ret)>>
         IN CASE r.ret.tag = "Ready" ->
                   Out(Map(r.self, None), Ready(f[r.ret.val]),
                       lg \o <<Ev("f", Called(r.ret.val))>>)
              [] r.ret.tag = "NotReady" -> Out(Map(r.self, Some(f)), NotReady, lg)
              [] OTHER -> Out(Map(r.self, None), r.ret, lg)

\* Map::poll that polls the inner future before it looks for its transform.
Map_poll_polls_first(self) ==
    LET r == poll(self.future)
        lg == <<Ev("future", r.ret)>>
    IN IF self.f.tag = "None"
       THEN Out(Map(r.self, None), Panic("cannot poll map twice"), lg)
       ELSE LET f == self.f.val
            IN CASE r.ret.tag = "Ready" ->
                      Out(Map(r.self, None), Ready(f[r.ret.val]),
                          lg \o <<Ev("f", Called(r.ret.val))>>)
                 [] r.ret.tag = "NotReady" -> Out(Map(r.self, Some(f)), NotReady, lg)
                 [] OTHER -> Out(Map(r.self, None), r.ret, lg)

Map_poll(self) ==
    \* let f = self.f.take().expect("cannot poll map twice")
    IF self.f.tag = "None" THEN Out(self, Panic("cannot poll map twice"), <<>>)
    ELSE LET f == self.f.val
             r == poll(self.future)
             lg == <<Ev("future", r.ret)>>
         IN CASE r.ret.tag = "Ready" ->
                   Out(Map(r.self, None), Ready(f[r.ret.val]),
                       lg \o <<Ev("f", Called(r.ret.val))>>)
              [] r.ret.tag = "NotReady" -> Out(Map(r.self, Some(f)), NotReady, lg)
              [] OTHER -> Out(Map(r.self, None), r.ret, lg)

(***************************************************************************)
(* Select and SelectNext                                                   *)
(***************************************************************************)
Select(state) == [tag |-> "Select", state |-> state]

select(self, other) == Select(Some(<<self, other>>))

SelectNext_A(a) == [tag |-> "SelectNext", state |-> "A", a |-> a]
SelectNext_B(b) == [tag |-> "SelectNext", state |-> "B", b |-> b]
SelectNext_Done == [tag |-> "SelectNext", state |-> "Done"]

\* Select::poll that polls both sides before it looks at either result.
Select_poll_eager(self) ==
    IF self.state.tag = "None"
    THEN Out(self, Panic("cannot poll select twice"), <<>>)
    ELSE LET a == self.state.val[1]
             b == self.state.val[2]
             ra == poll(a)
             rb == poll(b)
             lg == <<Ev("a", ra.ret), Ev("b", rb.ret)>>
         IN CASE ra.ret.tag = "Ready" ->
                   Out(Select(None), Ready(<<ra.ret.val, SelectNext_B(rb.self)>>), lg)
              [] ra.ret.tag = "NotReady" /\ rb.ret.tag = "Ready" ->
                   Out(Select(None), Ready(<<rb.ret.val, SelectNext_A(ra.self)>>), lg)
              [] ra.ret.tag = "NotReady" /\ rb.ret.tag = "NotReady" ->
                   Out(Select(Some(<<ra.self, rb.self>>)), NotReady, lg)
              [] OTHER -> Out(Select(None), Panic("inner"), lg)

\* Select::poll that does not put the pair back when neither future is ready.
Select_poll_dropped(self) ==
    IF self.state.tag = "None"
    THEN Out(self, Panic("cannot poll select twice"), <<>>)
    ELSE LET a == self.state.val[1]
             b == self.state.val[2]
             ra == poll(a)
             la == <<Ev("a", ra.ret)>>
         IN CASE ra.ret.tag = "Ready" ->
                   Out(Select(None), Ready(<<ra.ret.val, SelectNext_B(b)>>), la)
              [] ra.ret.tag = "NotReady" ->
                   LET rb == poll(b)
                       lg == la \o <<Ev("b", rb.ret)>>
                   IN CASE rb.ret.tag = "Ready" ->
                             Out(Select(None),
                                 Ready(<<rb.ret.val, SelectNext_A(ra.self)>>), lg)
                        [] rb.ret.tag = "NotReady" -> Out(Select(None), NotReady, lg)
                        [] OTHER -> Out(Select(None), rb.ret, lg)
              [] OTHER -> Out(Select(None), ra.ret, la)

Select_poll(self) ==
    \* let (mut a, mut b) = self.state.take().expect("cannot poll select twice")
    IF self.state.tag = "None"
    THEN Out(self, Panic("cannot poll select twice"), <<>>)
    ELSE LET a == self.state.val[1]
             b == self.state.val[2]
             ra == poll(a)
             la == <<Ev("a", ra.ret)>>
         IN CASE ra.ret.tag = "Ready" ->
                   Out(Select(None), Ready(<<ra.ret.val, SelectNext_B(b)>>), la)
              [] ra.ret.tag = "NotReady" ->
                   LET rb == poll(b)
                       lg == la \o <<Ev("b", rb.ret)>>
                   IN CASE rb.ret.tag = "Ready" ->
                             Out(Select(None),
                                 Ready(<<rb.ret.val, SelectNext_A(ra.self)>>), lg)
                        [] rb.ret.tag = "NotReady" ->
                             Out(Select(Some(<<ra.self, rb.self>>)), NotReady, lg)
                        [] OTHER -> Out(Select(None), rb.ret, lg)
              [] OTHER -> Out(Select(None), ra.ret, la)

\* SelectNext::poll that does not put the future back when it is not ready.
SelectNext_poll_forgets(self) ==
    LET state == self
    IN CASE state.state = "A" ->
              LET t == poll(state.a)
              IN Out(SelectNext_Done, t.ret, <<Ev("a", t.ret)>>)
         [] state.state = "B" ->
              LET t == poll(state.b)
              IN Out(SelectNext_Done, t.ret, <<Ev("b", t.ret)>>)
         [] OTHER ->
              Out(SelectNext_Done, Panic("cannot poll SelectNext twice"), <<>>)

SelectNext_poll(self) ==
    \* let state = mem::replace(self, SelectNext::Done)
    LET state == self
    IN CASE state.state = "A" ->
              LET t == poll(state.a)
                  lg == <<Ev("a", t.ret)>>
              IN IF t.ret.tag = "Panic" THEN Out(SelectNext_Done, t.ret, lg)
                 ELSE IF is_not_ready(t.ret)
                 THEN Out(SelectNext_A(t.self), t.ret, lg)
                 ELSE Out(SelectNext_Done, t.ret, lg)
         [] state.state = "B" ->
              LET t == poll(state.b)
                  lg == <<Ev("b", t.ret)>>
              IN IF t.ret.tag = "Panic" THEN Out(SelectNext_Done, t.ret, lg)
                 ELSE IF is_not_ready(t.ret)
                 THEN Out(SelectNext_B(t.self), t.ret, lg)
                 ELSE Out(SelectNext_Done, t.ret, lg)
         [] OTHER ->
              Out(SelectNext_Done, Panic("cannot poll SelectNext twice"), <<>>)

(***************************************************************************)
(* A primitive infinite stream: it repeats a readiness schedule, and its  *)
(* n-th item is the number n.                                              *)
(***************************************************************************)
Source(sched) == [tag |-> "Source", sched |-> sched, pos |-> 1, n |-> 0]

Source_poll(self) ==
    LET pos == (self.pos % Len(self.sched)) + 1
    IN IF self.sched[self.pos]
       THEN Out([self EXCEPT !.pos = pos, !.n = @ + 1], Ready(self.n + 1), <<>>)
       ELSE Out([self EXCEPT !.pos = pos], NotReady, <<>>)

(***************************************************************************)
(* Merge and MergedItem                                                    *)
(***************************************************************************)
Merge(a, b) == [tag |-> "Merge", a |-> a, b |-> b]

merge(self, other) == Merge(self, other)

MergedItem_First(a) == [tag |-> "First", a |-> a]
MergedItem_Second(b) == [tag |-> "Second", b |-> b]
MergedItem_Both(a, b) == [tag |-> "Both", a |-> a, b |-> b]

\* Merge::poll that reports only A's item when both streams are ready.
Merge_poll_drops(self) ==
    LET ra == poll(self.a)
        rb == poll(self.b)
        lg == <<Ev("a", ra.ret), Ev("b", rb.ret)>>
        me == Merge(ra.self, rb.self)
    IN CASE ra.ret.tag = "Ready" -> Out(me, Ready(MergedItem_First(ra.ret.val)), lg)
         [] rb.ret.tag = "Ready" -> Out(me, Ready(MergedItem_Second(rb.ret.val)), lg)
         [] OTHER -> Out(me, NotReady, lg)

Merge_poll(self) ==
    LET ra == poll(self.a)
        la == <<Ev("a", ra.ret)>>
    IN IF ra.ret.tag = "Panic" THEN Out(Merge(ra.self, self.b), ra.ret, la)
       ELSE
       LET rb == poll(self.b)
           lg == la \o <<Ev("b", rb.ret)>>
           me == Merge(ra.self, rb.self)
       IN CASE rb.ret.tag = "Panic" -> Out(me, rb.ret, lg)
            [] is_not_ready(ra.ret) /\ is_not_ready(rb.ret) -> Out(me, NotReady, lg)
            [] is_not_ready(ra.ret) /\ rb.ret.tag = "Ready" ->
                 Out(me, Ready(MergedItem_Second(rb.ret.val)), lg)
            [] ra.ret.tag = "Ready" /\ is_not_ready(rb.ret) ->
                 Out(me, Ready(MergedItem_First(ra.ret.val)), lg)
            [] OTHER ->
                 Out(me, Ready(MergedItem_Both(ra.ret.val, rb.ret.val)), lg)

(***************************************************************************)
(* InfiniteStream Map                                                      *)
(***************************************************************************)
StreamMap(stream, f) == [tag |-> "StreamMap", stream |-> stream, f |-> f]

stream_map(self, f) == StreamMap(self, f)

StreamMap_poll(self) ==
    \* self.stream.poll().map(|t| (self.f)(t))
    LET r == poll(self.stream)
        lg == <<Ev("stream", r.ret)>>
        me == StreamMap(r.self, self.f)
    IN CASE r.ret.tag = "Panic" -> Out(me, r.ret, lg)
         [] r.ret.tag = "Ready" ->
              Out(me, Async_map(r.ret, self.f), lg \o <<Ev("f", Called(r.ret.val))>>)
         [] OTHER -> Out(me, Async_map(r.ret, self.f), lg)

(***************************************************************************)
(* A primitive Stream: it repeats a readiness schedule, yields the items  *)
(* of a finite sequence in order, and then answers that it has ended.     *)
(***************************************************************************)
Finite(sched, items, after) ==
    [tag |-> "Finite", sched |-> sched, items |-> items, after |-> after,
     pos |-> 1, n |-> 0]

\* Stream::poll -> Async<Option<Item>>
Finite_poll(self) ==
    LET pos == (self.pos % Len(self.sched)) + 1
    IN IF ~self.sched[self.pos] /\ self.n <= Len(self.items)
       THEN Out([self EXCEPT !.pos = pos], NotReady, <<>>)
       ELSE IF self.n < Len(self.items)
       THEN Out([self EXCEPT !.pos = pos, !.n = @ + 1],
                Ready(Some(self.items[self.n + 1])), <<>>)
       ELSE IF self.n = Len(self.items) \/ self.after = "Ready"
       THEN Out([self EXCEPT !.pos = pos, !.n = @ + 1], Ready(None), <<>>)
       ELSE Out(self, Panic("stream polled after its end"), <<>>)

(***************************************************************************)
(* InfiniteStream AndThen                                                  *)
(***************************************************************************)
\* A reusable factory F: FnMut(S::Item) -> B; the future it builds for item
\* t resolves to fn(t), after a number of not-ready polls that varies with t.
FactoryMut(fn, m, after) ==
    [tag |-> "FnMutFactory", fn |-> fn, m |-> m, after |-> after]
call_factory(f, t) == Leaf((f.m + t) % (MaxDelay + 1), call_mut(f.fn, t), f.after)

StreamAndThen(f, future, stream) ==
    [tag |-> "StreamAndThen", f |-> f, future |-> future, stream |-> stream]

stream_and_then(self, f) == StreamAndThen(f, None, self)

\* AndThen::poll that does not put a future that is not ready back.
StreamAndThen_poll_drops(self) ==
    IF self.future.tag = "Some"
    THEN LET r == poll(self.future.val)
         IN Out([self EXCEPT !.future = None], r.ret, <<Ev("future", r.ret)>>)
    ELSE LET r == poll(self.stream)
             lg == <<Ev("stream", r.ret)>>
         IN IF r.ret.tag = "Ready"
            THEN LET again == poll(StreamAndThen(self.f,
                                       Some(call_factory(self.f, r.ret.val)), r.self))
                 IN Out(again.self, again.ret,
                        lg \o <<Ev("f", Called(r.ret.val)), Ev("self", again.ret)>>
                           \o again.log)
            ELSE Out([self EXCEPT !.stream = r.self], r.ret, lg)

\* AndThen::poll that returns NotReady as soon as it has built the future.
StreamAndThen_poll_idle(self) ==
    IF self.future.tag = "Some"
    THEN LET r == poll(self.future.val)
             lg == <<Ev("future", r.ret)>>
         IN IF r.ret.tag = "NotReady"
            THEN Out([self EXCEPT !.future = Some(r.self)], NotReady, lg)
            ELSE Out([self EXCEPT !.future = None], r.ret, lg)
    ELSE LET r == poll(self.stream)
             lg == <<Ev("stream", r.ret)>>
         IN IF r.ret.tag = "Ready"
            THEN Out(StreamAndThen(self.f, Some(call_factory(self.f, r.ret.val)),
                                   r.self),
                     NotReady, lg \o <<Ev("f", Called(r.ret.val))>>)
            ELSE Out([self EXCEPT !.stream = r.self], r.ret, lg)

StreamAndThen_poll(self) ==
    \* if let Some(mut future) = mem::replace(&mut self.future, None)
    IF self.future.tag = "Some"
    THEN LET r == poll(self.future.val)
             lg == <<Ev("future", r.ret)>>
         IN IF r.ret.tag = "NotReady"
            THEN Out([self EXCEPT !.future = Some(r.self)], NotReady, lg)
            ELSE Out([self EXCEPT !.future = None], r.ret, lg)
    ELSE LET r == poll(self.stream)
             lg == <<Ev("stream", r.ret)>>
         IN IF r.ret.tag = "Ready"
            THEN \* self.future = Some((self.f)(t)); self.poll()
                 LET again == poll(StreamAndThen(self.f,
                                       Some(call_factory(self.f, r.ret.val)), r.self))
                 IN Out(again.self, again.ret,
                        lg \o <<Ev("f", Called(r.ret.val)), Ev("self", again.ret)>>
                           \o again.log)
            ELSE Out([self EXCEPT !.stream = r.self], r.ret, lg)

(***************************************************************************)
(* poll, dispatched on the implementor of Future or InfiniteStream.       *)
(***************************************************************************)
poll(self) ==
    CASE self.tag = "Leaf" -> Leaf_poll(self)
      [] self.tag = "AndThen" -> AndThen_poll(self)
      [] self.tag = "Fuse" -> Fuse_poll(self)
      [] self.tag = "Join" -> Join_poll(self)
      [] self.tag = "Map" -> Map_poll(self)
      [] self.tag = "Select" -> Select_poll(self)
      [] self.tag = "SelectNext" -> SelectNext_poll(self)
      [] self.tag = "Source" -> Source_poll(self)
      [] self.tag = "Merge" -> Merge_poll(self)
      [] self.tag = "StreamMap" -> StreamMap_poll(self)
      [] self.tag = "StreamAndThen" -> StreamAndThen_poll(self)
      [] self.tag = "Finite" -> Finite_poll(self)

(***************************************************************************)
(* The blocking bridges.  A bridge returns the item itself, not an Async. *)
(***************************************************************************)
Returned(item) == [tag |-> "Returned", val |-> item]

RECURSIVE wait(_)
\* Future::wait that tests is_ready() and then polls again for the item.
wait_repoll(self) ==
    LET r == poll(self)
        lg == <<Ev("self", r.ret)>>
    IN CASE r.ret.tag = "Ready" ->
              LET r2 == poll(r.self)
                  l2 == lg \o <<Ev("self", r2.ret)>>
              IN IF r2.ret.tag = "Ready"
                 THEN Out(r2.self, Returned(r2.ret.val), l2)
                 ELSE Out(r2.self, r2.ret, l2)
         [] r.ret.tag = "NotReady" ->
              LET w == wait(r.self) IN Out(w.self, w.ret, lg \o w.log)
         [] OTHER -> Out(r.self, r.ret, lg)

\* Future::wait: loop { if let Async::Ready(item) = self.poll() { return item } }
wait(self) ==
    LET r == poll(self)
        lg == <<Ev("self", r.ret)>>
    IN CASE r.ret.tag = "Ready" -> Out(r.self, Returned(r.ret.val), lg)
         [] r.ret.tag = "NotReady" ->
              LET w == wait(r.self) IN Out(w.self, w.ret, lg \o w.log)
         [] OTHER -> Out(r.self, r.ret, lg)

InfiniteWait(stream) == [tag |-> "InfiniteWait", stream |-> stream]

RECURSIVE InfiniteWait_next(_)
InfiniteWait_next(self) ==
    LET r == poll(self.stream)
        lg == <<Ev("stream", r.ret)>>
    IN CASE r.ret.tag = "Ready" ->
              Out(InfiniteWait(r.self), Returned(r.ret.val), lg)
         [] r.ret.tag = "NotReady" ->
              LET w == InfiniteWait_next(InfiniteWait(r.self))
              IN Out(w.self, w.ret, lg \o w.log)
         [] OTHER -> Out(InfiniteWait(r.self), r.ret, lg)

\* Wait { stream: self }
StreamWait(stream) == [tag |-> "StreamWait", stream |-> stream]

stream_wait(self) == StreamWait(self)

RECURSIVE StreamWait_next(_)
\* Iterator::next that takes a stream that is not ready for one that ended.
StreamWait_next_gives_up(self) ==
    LET r == poll(self.stream)
        lg == <<Ev("stream", r.ret)>>
    IN CASE r.ret.tag = "Ready" ->
              Out(StreamWait(r.self), Returned(r.ret.val), lg)
         [] r.ret.tag = "NotReady" -> Out(StreamWait(r.self), Returned(None), lg)
         [] OTHER -> Out(StreamWait(r.self), r.ret, lg)

StreamWait_next(self) ==
    \* loop { if let Async::Ready(item) = self.stream.poll() { return item; } }
    LET r == poll(self.stream)
        lg == <<Ev("stream", r.ret)>>
    IN CASE r.ret.tag = "Ready" ->
              Out(StreamWait(r.self), Returned(r.ret.val), lg)
         [] r.ret.tag = "NotReady" ->
              LET w == StreamWait_next(StreamWait(r.self))
              IN Out(w.self, w.ret, lg \o w.log)
         [] OTHER -> Out(StreamWait(r.self), r.ret, lg)

(***************************************************************************)
(* The driver.                                                             *)
(*   driven      the object the driver owns and calls                     *)
(*   select_next the SelectNext a resolved Select handed to the driver    *)
(*   history     one entry per call made on `driven`: the operation, its  *)
(*               result, and the calls it made on its children            *)
(*   next_history  the same for the calls made on `select_next`           *)
(*   given       the object as constructed                                *)
(***************************************************************************)
VARIABLES driven, select_next, history, next_history, given

vars == <<history, next_history, driven, select_next, given>>

Leaves == {Leaf(k, v, m) : k \in Delays, v \in Values, m \in AfterModes}
Factories == {Factory(fn, m, after) : fn \in Fns, m \in Delays, after \in AfterModes}
Schedules ==
    UNION {{s \in [1..n -> BOOLEAN] : \E i \in 1..n : s[i]} : n \in 1..SchedLen}
Sources == {Source(s) : s \in Schedules}
ItemLists == UNION {[1..n -> Values] : n \in 0..MaxLen}
Finites ==
    {Finite(s, items, after) : s \in Schedules, items \in ItemLists, after \in AfterModes}
StreamFns == {Affine(c, d) : c \in 1..2, d \in Values}
StreamFactories ==
    {FactoryMut(fn, m, after) : fn \in StreamFns, m \in Delays, after \in AfterModes}

\* Ownership of the future moved into a call that consumed it.
Moved(was) == [tag |-> "Moved", was |-> was]

Constructed ==
    \/ driven \in Leaves
    \/ \E a \in Leaves, f \in Factories : driven = and_then(a, f)
    \/ \E a \in Leaves : driven = fuse(a)
    \/ \E a \in Leaves, b \in Leaves : driven = join(a, b)
    \/ \E a \in Leaves, f \in Fns : driven = map(a, f)
    \/ \E a \in Leaves, b \in Leaves : driven = select(a, b)
    \/ \E a \in Sources, b \in Sources : driven = merge(a, b)
    \/ \E s \in Sources : driven = InfiniteWait(s)
    \/ \E a \in Leaves, g \in Fns, h \in Fns : driven = map(map(a, g), h)
    \/ \E s \in Sources, f \in StreamFns : driven = stream_map(s, f)
    \/ \E s \in Sources, f \in StreamFactories : driven = stream_and_then(s, f)
    \/ \E s \in Finites : driven = stream_wait(s)
    \/ \E s \in Sources, g \in StreamFns, h \in StreamFns :
          driven = stream_map(stream_map(s, g), h)

Init ==
    /\ Constructed
    /\ given = driven
    /\ select_next = None
    /\ history = <<>>
    /\ next_history = <<>>

Call(on, r) == [on |-> on, ret |-> r.ret, log |-> r.log]

\* The driver calls poll on the combinator it owns.
Drive(tag, r) ==
    /\ driven' = r.self
    /\ history' = Append(history, Call(tag, r))
    /\ UNCHANGED <<select_next, next_history, given>>

PollAndThen ==
    /\ driven.tag = "AndThen"
    /\ Len(history) < MaxPolls
    /\ Drive("AndThen", AndThen_poll(driven))

PollFuse ==
    /\ driven.tag = "Fuse"
    /\ Len(history) < MaxPolls
    /\ Drive("Fuse", Fuse_poll(driven))

PollJoin ==
    /\ driven.tag = "Join"
    /\ Len(history) < MaxPolls
    /\ Drive("Join", Join_poll(driven))

PollMap ==
    /\ driven.tag = "Map"
    /\ Len(history) < MaxPolls
    /\ Drive("Map", Map_poll(driven))

PollSelect ==
    /\ driven.tag = "Select"
    /\ Len(history) < MaxPolls
    /\ LET r == Select_poll(driven)
       IN /\ driven' = r.self
          /\ history' = Append(history, Call("Select", r))
          /\ select_next' = IF r.ret.tag = "Ready" THEN r.ret.val[2] ELSE select_next
          /\ UNCHANGED <<next_history, given>>

PollSelectNext ==
    /\ select_next.tag = "SelectNext"
    /\ Len(next_history) < MaxPolls
    /\ LET r == SelectNext_poll(select_next)
       IN /\ select_next' = r.self
          /\ next_history' = Append(next_history, Call("SelectNext", r))
          /\ UNCHANGED <<driven, history, given>>

PollMerge ==
    /\ driven.tag = "Merge"
    /\ Len(history) < MaxPolls
    /\ Drive("Merge", Merge_poll(driven))

PollStreamMap ==
    /\ driven.tag = "StreamMap"
    /\ Len(history) < MaxPolls
    /\ Drive("StreamMap", StreamMap_poll(driven))

PollStreamAndThen ==
    /\ driven.tag = "StreamAndThen"
    /\ Len(history) < MaxPolls
    /\ Drive("StreamAndThen", StreamAndThen_poll(driven))

\* The driver hands a primitive future to Future::wait, which consumes it.
Wait ==
    /\ driven.tag = "Leaf"
    /\ Drive("wait", [wait(driven) EXCEPT !.self = Moved(@)])

InfiniteWaitNext ==
    /\ driven.tag = "InfiniteWait"
    /\ Len(history) < MaxPolls
    /\ Drive("next", InfiniteWait_next(driven))

StreamWaitNext ==
    /\ driven.tag = "StreamWait"
    /\ Len(history) < MaxPolls
    /\ Drive("next", StreamWait_next(driven))

Next ==
    \/ PollAndThen
    \/ PollFuse
    \/ PollJoin
    \/ PollMap
    \/ PollSelect
    \/ PollSelectNext
    \/ PollMerge
    \/ PollStreamMap
    \/ PollStreamAndThen
    \/ Wait
    \/ InfiniteWaitNext
    \/ StreamWaitNext

Spec == Init /\ [][Next]_vars

\* The driver of a Join keeps polling it.
FairSpec == Spec /\ WF_vars(PollJoin)

(***************************************************************************)
(* Reading the histories.                                                  *)
(***************************************************************************)
\* The children a call polled or invoked, in order.
Ids(call) == [n \in 1..Len(call.log) |-> call.log[n].id]

\* Child `id` answered Ready to the receiver in one of the calls 1..i of h.
SawReady(h, i, id) ==
    \E j \in 1..i : \E n \in 1..Len(h[j].log) :
        h[j].log[n].id = id /\ h[j].log[n].ret.tag = "Ready"

\* Some call of h returned Ready.
Resolved(h) == \E i \in 1..Len(h) : h[i].ret.tag = "Ready"

(***************************************************************************)
(* C1  AndThen sequencing.  With A not ready on its first k polls and     *)
(* B = factory(a) not ready on its first m polls, the polls of            *)
(* A.and_then(factory) return NotReady k+m times and Ready(b) on poll     *)
(* k+m+1; the call in which A answers Ready invokes the factory and gives *)
(* B its first poll.                                                       *)
(***************************************************************************)
AndThenSequencing ==
    given.tag = "AndThen" =>
        LET k == given.a.k
            m == given.f.m
            a == given.a.v
            b == given.f.fn[a]
        IN \A i \in 1..Len(history) :
              /\ i <= k + m => history[i].ret = NotReady
              /\ i = k + m + 1 => history[i].ret = Ready(b)
              /\ i = k + 1 =>
                    /\ Ids(history[i]) = <<"a", "f", "b">>
                    /\ history[i].log[1].ret = Ready(a)
                    /\ history[i].log[3].ret = IF m = 0 THEN Ready(b) ELSE NotReady

AndThenSequencingWitness ==
    /\ given.tag = "AndThen"
    /\ given.a.k >= 1
    /\ given.f.m >= 1
    /\ Len(history) = given.a.k + given.f.m + 1
    /\ history[Len(history)].ret.tag = "Ready"

(***************************************************************************)
(* C2  Join safety.  A poll of A.join(B) returns Ready only when A and B  *)
(* have each answered Ready to the Join, in that call or an earlier one,  *)
(* and the value is the pair (a, b), A's value first.                     *)
(***************************************************************************)
JoinSafety ==
    given.tag = "Join" =>
        \A i \in 1..Len(history) :
            history[i].ret.tag = "Ready" =>
                /\ SawReady(history, i, "a")
                /\ SawReady(history, i, "b")
                /\ history[i].ret.val = <<given.a.v, given.b.v>>

JoinSafetyWitness ==
    /\ given.tag = "Join"
    /\ given.b.k < given.a.k
    /\ given.a.v # given.b.v
    /\ Resolved(history)

(***************************************************************************)
(* C3  Join liveness.  A driver that keeps polling A.join(B) gets         *)
(* Ready((a, b)) in the end, and the Join is never Done before it has     *)
(* returned Ready.                                                         *)
(***************************************************************************)
JoinReturnedPair ==
    /\ given.tag = "Join"
    /\ \E i \in 1..Len(history) :
          history[i].ret = Ready(<<given.a.v, given.b.v>>)

JoinIsDone == driven.tag = "Join" /\ driven.state = "Done"

JoinLiveness ==
    /\ (given.tag = "Join") ~> JoinReturnedPair
    /\ [](JoinIsDone => JoinReturnedPair)

JoinLivenessWitness ==
    /\ given.tag = "Join"
    /\ given.a.k >= 1
    /\ given.b.k >= 1
    /\ given.a.k # given.b.k
    /\ history # <<>>
    /\ history[1].ret = NotReady
    /\ JoinReturnedPair

(***************************************************************************)
(* C4  Join polling discipline.  A call made while neither side has       *)
(* answered Ready polls A once and then B once; once one side has         *)
(* answered Ready, a call polls the other side only; the Join holds the   *)
(* value of the side that answered, and returns it in the pair.           *)
(***************************************************************************)
JoinDiscipline ==
    given.tag = "Join" =>
        /\ \A i \in 1..Len(history) :
              LET aDone == SawReady(history, i - 1, "a")
                  bDone == SawReady(history, i - 1, "b")
              IN /\ (~aDone /\ ~bDone) => Ids(history[i]) = <<"a", "b">>
                 /\ (aDone /\ ~bDone) => Ids(history[i]) = <<"b">>
                 /\ (~aDone /\ bDone) => Ids(history[i]) = <<"a">>
                 /\ (aDone /\ bDone) => Ids(history[i]) = <<>>
        /\ LET aDone == SawReady(history, Len(history), "a")
               bDone == SawReady(history, Len(history), "b")
           IN /\ driven.state = "BothRunning" <=> (~aDone /\ ~bDone)
              /\ driven.state = "FirstDone" <=> (aDone /\ ~bDone)
              /\ driven.state = "SecondDone" <=> (~aDone /\ bDone)
              /\ driven.state = "Done" <=> (aDone /\ bDone)
              /\ driven.state = "FirstDone" =>
                    /\ driven.a_item = given.a.v
                    /\ driven.b.polls = Len(history)
              /\ driven.state = "SecondDone" =>
                    /\ driven.b_item = given.b.v
                    /\ driven.a.polls = Len(history)
              /\ driven.state = "BothRunning" =>
                    /\ driven.a.polls = Len(history)
                    /\ driven.b.polls = Len(history)

JoinDisciplineWitness ==
    /\ given.tag = "Join"
    /\ Len(history) >= 3
    /\ Ids(history[1]) = <<"a", "b">>
    /\ history[1].log[1].ret.tag = "Ready"
    /\ history[1].log[2].ret.tag = "NotReady"
    /\ Ids(history[2]) = <<"b">>
    /\ Ids(history[3]) = <<"b">>
    /\ history[3].ret.tag = "Ready"

(***************************************************************************)
(* C5  Select tie-break.  A call on a live Select polls A first.  If A    *)
(* answers Ready the call polls nothing else and returns A's value with   *)
(* SelectNext::B(b), b as it was before the call; so when both are ready  *)
(* on the first poll the result carries A's value and a B that was never  *)
(* polled.  B is polled in a call only after A answered NotReady in that  *)
(* call, and B wins only in such a call.                                  *)
(***************************************************************************)
SelectTieBreak ==
    given.tag = "Select" =>
        LET a == given.state.val[1]
            b == given.state.val[2]
        IN \A i \in 1..Len(history) :
              LET c == history[i]
              IN /\ c.ret.tag # "Panic" => (c.log # <<>> /\ c.log[1].id = "a")
                 /\ (c.log # <<>> /\ c.log[1].ret.tag = "Ready") =>
                       /\ Ids(c) = <<"a">>
                       /\ c.ret.tag = "Ready"
                       /\ c.ret.val[1] = a.v
                       /\ c.ret.val[2] = SelectNext_B([b EXCEPT !.polls = i - 1])
                 /\ (\E n \in 1..Len(c.log) : c.log[n].id = "b") =>
                       /\ Ids(c) = <<"a", "b">>
                       /\ c.log[1].ret = NotReady
                 /\ (c.ret.tag = "Ready" /\ c.ret.val[2].state = "A") =>
                       /\ Ids(c) = <<"a", "b">>
                       /\ c.log[1].ret = NotReady
                       /\ c.log[2].ret = Ready(b.v)
                       /\ c.ret.val[1] = b.v
                 /\ (i = 1 /\ a.k = 0 /\ b.k = 0) =>
                       /\ c.ret.tag = "Ready"
                       /\ c.ret.val[1] = a.v
                       /\ c.ret.val[2] = SelectNext_B(b)
                       /\ c.ret.val[2].b.polls = 0

SelectTieBreakWitness ==
    /\ given.tag = "Select"
    /\ given.state.val[1].k = 0
    /\ given.state.val[2].k = 0
    /\ given.state.val[1].v # given.state.val[2].v
    /\ history # <<>>
    /\ history[1].ret.tag = "Ready"

(***************************************************************************)
(* C6  SelectNext carries the loser.  The SelectNext a resolved Select    *)
(* returns holds the future that did not answer Ready, as the Select left *)
(* it: B with the polls of the earlier calls if A won, A with the polls   *)
(* of all calls if B won.  Each SelectNext::poll polls that future once:  *)
(* it returns NotReady and keeps the future while it is not ready, and    *)
(* the loser's own value the first time it is ready.  Select and          *)
(* SelectNext together return A's and B's values, each once.              *)
(***************************************************************************)
\* The call in which the Select resolved.
Won == CHOOSE i \in 1..Len(history) : history[i].ret.tag = "Ready"
AWon == history[Won].log[1].ret.tag = "Ready"

SelectNextLoser ==
    given.tag = "Select" =>
        LET a == given.state.val[1]
            b == given.state.val[2]
        IN IF ~Resolved(history)
           THEN select_next = None /\ next_history = <<>>
           ELSE LET loser == IF AWon THEN b ELSE a
                    lid == IF AWon THEN "b" ELSE "a"
                    p == IF AWon THEN Won - 1 ELSE Won
                    kept == [loser EXCEPT !.polls = p + Len(next_history)]
                IN /\ history[Won].ret.val[1] = IF AWon THEN a.v ELSE b.v
                   /\ history[Won].ret.val[2] =
                         IF AWon THEN SelectNext_B([b EXCEPT !.polls = p])
                                 ELSE SelectNext_A([a EXCEPT !.polls = p])
                   /\ \A i \in 1..Len(history) :
                         history[i].ret.tag = "Ready" => i = Won
                   /\ \A j \in 1..Len(next_history) :
                         LET c == next_history[j]
                         IN /\ p + j <= loser.k =>
                                  /\ Ids(c) = <<lid>>
                                  /\ c.log[1].ret = NotReady
                                  /\ c.ret = NotReady
                            /\ p + j = loser.k + 1 =>
                                  /\ Ids(c) = <<lid>>
                                  /\ c.log[1].ret = Ready(loser.v)
                                  /\ c.ret = Ready(loser.v)
                            /\ p + j > loser.k + 1 => c.ret.tag # "Ready"
                   /\ p + Len(next_history) <= loser.k =>
                         select_next = IF AWon THEN SelectNext_B(kept)
                                               ELSE SelectNext_A(kept)

SelectNextLoserWitness ==
    /\ given.tag = "Select"
    /\ Resolved(history)
    /\ ~AWon
    /\ Len(next_history) >= 2
    /\ next_history[1].ret = NotReady
    /\ Resolved(next_history)
    /\ given.state.val[1].v # given.state.val[2].v

(***************************************************************************)
(* C7  Terminal-state fatality.  Every poll of a Map, AndThen, Join,      *)
(* Select or SelectNext made after that combinator returned Ready aborts. *)
(***************************************************************************)
Consuming == {"Map", "AndThen", "Join", "Select", "SelectNext"}

Fatal(h) ==
    \A i \in 1..Len(h) : \A j \in 1..Len(h) :
        (i < j /\ h[i].on \in Consuming /\ h[i].ret.tag = "Ready") =>
            h[j].ret.tag = "Panic"

TerminalFatality == Fatal(history) /\ Fatal(next_history)

\* Two polls past Ready.
Overrun(h) ==
    /\ Len(h) >= 3
    /\ h[Len(h) - 2].ret.tag = "Ready"
    /\ h[Len(h) - 1].ret.tag = "Panic"
    /\ h[Len(h)].ret.tag = "Panic"

TerminalFatalityWitness ==
    /\ given.tag = "Select"
    /\ Overrun(history)
    /\ Overrun(next_history)

(***************************************************************************)
(* C8  Fuse idempotence.  Every poll of a Fuse made after it returned     *)
(* Ready returns NotReady and polls nothing: the slot is empty.           *)
(***************************************************************************)
FuseIdempotence ==
    given.tag = "Fuse" =>
        /\ \A i \in 1..Len(history) : \A j \in 1..Len(history) :
              (i < j /\ history[i].ret.tag = "Ready") =>
                  /\ history[j].ret = NotReady
                  /\ history[j].log = <<>>
        /\ Resolved(history) => driven.future = None

FuseIdempotenceWitness ==
    /\ given.tag = "Fuse"
    /\ Len(history) >= 4
    /\ history[Len(history) - 3].ret.tag = "Ready"
    /\ history[Len(history)].ret = NotReady

(***************************************************************************)
(* C9  Merge completeness.  Every Merge::poll polls A once and then B     *)
(* once, and returns NotReady, First(a), Second(b) or Both(a, b) as the   *)
(* two answers say; the items of A that the outputs carry are the items   *)
(* A has produced, in order, and the same for B.                          *)
(***************************************************************************)
Merged(ra, rb) ==
    IF ra.tag = "NotReady"
    THEN IF rb.tag = "NotReady" THEN NotReady
         ELSE Ready([tag |-> "Second", b |-> rb.val])
    ELSE IF rb.tag = "NotReady" THEN Ready([tag |-> "First", a |-> ra.val])
         ELSE Ready([tag |-> "Both", a |-> ra.val, b |-> rb.val])

Carries(c, side) ==
    c.ret.tag = "Ready" /\ c.ret.val.tag \in {side, "Both"}

ItemsOfA(h) ==
    LET cs == SelectSeq(h, LAMBDA c : Carries(c, "First"))
    IN [n \in 1..Len(cs) |-> cs[n].ret.val.a]

ItemsOfB(h) ==
    LET cs == SelectSeq(h, LAMBDA c : Carries(c, "Second"))
    IN [n \in 1..Len(cs) |-> cs[n].ret.val.b]

MergeCompleteness ==
    given.tag = "Merge" =>
        /\ \A i \in 1..Len(history) :
              LET c == history[i]
              IN /\ Ids(c) = <<"a", "b">>
                 /\ c.ret = Merged(c.log[1].ret, c.log[2].ret)
        /\ ItemsOfA(history) = [n \in 1..driven.a.n |-> n]
        /\ ItemsOfB(history) = [n \in 1..driven.b.n |-> n]

MergeCompletenessWitness ==
    /\ given.tag = "Merge"
    /\ \E i \in 1..Len(history) : Carries(history[i], "Both") /\ history[i].ret.val.tag = "Both"
    /\ \E i \in 1..Len(history) : history[i].ret.tag = "Ready" /\ history[i].ret.val.tag = "First"
    /\ \E i \in 1..Len(history) : history[i].ret.tag = "Ready" /\ history[i].ret.val.tag = "Second"
    /\ \E i \in 1..Len(history) : history[i].ret = NotReady

(***************************************************************************)
(* C10  Blocking bridges.  Future::wait on a future that is not ready on  *)
(* its first N polls and Ready(v) on poll N+1 polls it N+1 times and      *)
(* returns v.  Each InfiniteWait::next polls the stream until its first   *)
(* Ready(item), returns that item and polls no further.                   *)
(***************************************************************************)
\* The polls of one bridge call: NotReady n times, then Ready(item), returned.
SpinsThenReturns(c, n, item) ==
    /\ Len(c.log) = n + 1
    /\ \A x \in 1..n : c.log[x].ret = NotReady
    /\ c.log[n + 1].ret = Ready(item)
    /\ c.ret = Returned(item)

BridgePollCount ==
    /\ (given.tag = "Leaf" /\ history # <<>>) =>
          /\ Len(history) = 1
          /\ SpinsThenReturns(history[1], given.k, given.v)
          /\ driven.was.polls = given.k + 1
    /\ given.tag = "InfiniteWait" =>
          /\ \A i \in 1..Len(history) :
                /\ history[i].log # <<>>
                /\ SpinsThenReturns(history[i], Len(history[i].log) - 1, i)
          /\ driven.stream.n = Len(history)

BridgePollCountWitness ==
    /\ given.tag = "Leaf"
    /\ given.k >= 2
    /\ history # <<>>
    /\ history[1].ret = Returned(given.v)

(***************************************************************************)
(* C11  Functor law.  Polling f.map(g).map(h) gives, call for call, what  *)
(* polling f.map(h after g) gives: the same number of NotReady results    *)
(* and then the same value; the same for streams.  Async::map leaves      *)
(* NotReady as it is, map by the identity changes nothing, and mapping by *)
(* f and then by g is mapping by g after f.                               *)
(***************************************************************************)
\* What n successive polls of `self` return.
RECURSIVE Polls(_, _)
Polls(self, n) ==
    IF n = 0 THEN <<>>
    ELSE LET r == poll(self) IN <<r.ret>> \o Polls(r.self, n - 1)

Returns(h) == [i \in 1..Len(h) |-> h[i].ret]

compose(h, g) == [x \in DOMAIN g |-> h[g[x]]]
compose_mut(h, g) == Affine(h.mul * g.mul, h.mul * g.add + h.add)
Identity == Affine(1, 0)

FunctorLaw ==
    /\ (given.tag = "Map" /\ given.future.tag = "Map") =>
          Returns(history) =
              Polls(map(given.future.future,
                        compose(given.f.val, given.future.f.val)), Len(history))
    /\ (given.tag = "StreamMap" /\ given.stream.tag = "StreamMap") =>
          Returns(history) =
              Polls(stream_map(given.stream.stream,
                               compose_mut(given.f, given.stream.f)), Len(history))
    /\ given.tag = "StreamMap" =>
          \A i \in 1..Len(history) :
              LET r == history[i].log[1].ret
              IN /\ Async_map(r, Identity) = r
                 /\ r = NotReady => history[i].ret = NotReady
                 /\ \A g \in StreamFns :
                       Async_map(Async_map(r, given.f), g) =
                           Async_map(r, compose_mut(g, given.f))

FunctorLawWitness ==
    /\ given.tag = "Map"
    /\ given.future.tag = "Map"
    /\ given.future.future.k >= 1
    /\ LET g == given.future.f.val
           h == given.f.val
           v == given.future.future.v
       IN /\ h[g[v]] # g[h[v]]
          /\ history # <<>>
          /\ history[Len(history)].ret = Ready(h[g[v]])

(***************************************************************************)
(* C12  InfiniteStream::and_then, item by item.  At most one future made  *)
(* by the factory is in flight; a call made while one is in flight polls  *)
(* that future and not the source; the factory is called once for each    *)
(* item taken from the source, with that item; and the n-th item emitted  *)
(* is the result of the future built from the source's n-th item.         *)
(***************************************************************************)
\* All the calls made on children during the calls of h, in order.
RECURSIVE Flat(_)
Flat(h) ==
    IF h = <<>> THEN <<>>
    ELSE Flat(SubSeq(h, 1, Len(h) - 1)) \o h[Len(h)].log

\* The children's answers with the given id and tag, in order.
Answers(log, id, tag) ==
    SelectSeq(log, LAMBDA e : e.id = id /\ e.ret.tag = tag)

\* Futures built and not yet resolved, after the calls of h.
InFlight(h) ==
    Len(Answers(Flat(h), "f", "Called")) - Len(Answers(Flat(h), "future", "Ready"))

Emitted(h) == SelectSeq(Returns(h), LAMBDA r : r.tag = "Ready")

StreamAndThenPerItem ==
    given.tag = "StreamAndThen" =>
        LET flat == Flat(history)
            taken == Answers(flat, "stream", "Ready")
            built == Answers(flat, "f", "Called")
        IN /\ InFlight(history) \in {0, 1}
           /\ driven.future.tag = "Some" <=> InFlight(history) = 1
           /\ \A i \in 1..Len(history) :
                 InFlight(SubSeq(history, 1, i - 1)) = 1 =>
                     Ids(history[i]) = <<"future">>
           /\ Len(taken) = driven.stream.n
           /\ Len(built) = Len(taken)
           /\ \A n \in 1..Len(taken) :
                 /\ taken[n].ret.val = n
                 /\ built[n].ret.val = n
           /\ Len(Emitted(history)) \in {Len(taken), Len(taken) - 1}
           /\ \A n \in 1..Len(Emitted(history)) :
                 Emitted(history)[n] = Ready(call_mut(given.f.fn, n))

StreamAndThenPerItemWitness ==
    /\ given.tag = "StreamAndThen"
    /\ Len(Emitted(history)) >= 2
    /\ given.f.fn # Identity
    /\ \E i \in 2..Len(history) :
          /\ Ids(history[i]) = <<"future">>
          /\ history[i].ret = NotReady

(***************************************************************************)
(* C13  No double consumption.  Once an inner future has answered Ready   *)
(* to Map, AndThen, Join, Select, SelectNext, Fuse or the stream AndThen  *)
(* (for the future in flight), that future is never polled again: not by  *)
(* a later ordinary poll and not by a poll that aborts.                   *)
(***************************************************************************)
InnerFutures == {"a", "b", "future"}

\* The factory of a stream AndThen built a new future between p and q.
Rebuilt(log, p, q) ==
    /\ given.tag = "StreamAndThen"
    /\ \E m \in (p + 1)..(q - 1) : log[m].id = "f"

ConsumedOnce(log) ==
    \A p \in 1..Len(log) : \A q \in 1..Len(log) :
        (/\ p < q
         /\ log[p].id \in InnerFutures
         /\ log[p].ret.tag = "Ready"
         /\ log[q].id = log[p].id) => Rebuilt(log, p, q)

NoDoubleConsumption ==
    given.tag \in {"Map", "AndThen", "Join", "Select", "Fuse", "StreamAndThen"} =>
        /\ ConsumedOnce(Flat(history) \o Flat(next_history))
        /\ \A i \in 1..Len(history) :
              history[i].ret.tag = "Panic" => history[i].log = <<>>
        /\ \A i \in 1..Len(next_history) :
              next_history[i].ret.tag = "Panic" => next_history[i].log = <<>>

\* A join whose first future resolved two calls before the second, polled
\* on after it returned.
NoDoubleConsumptionWitness ==
    /\ given.tag = "Join"
    /\ Len(history) >= 4
    /\ Ids(history[1]) = <<"a", "b">>
    /\ history[1].log[1].ret.tag = "Ready"
    /\ Ids(history[2]) = <<"b">>
    /\ history[3].ret.tag = "Ready"
    /\ history[Len(history)].ret.tag = "Panic"

(***************************************************************************)
(* C14  Abort only on protocol violation.  A poll of Map, AndThen, Join,  *)
(* Select or SelectNext aborts only if an earlier poll of that same       *)
(* combinator returned Ready; polls of Fuse, Merge and of the stream Map  *)
(* and AndThen never abort.                                               *)
(***************************************************************************)
NeverAborting == {"Fuse", "Merge", "StreamMap", "StreamAndThen"}

AbortsAfterReady(h) ==
    \A j \in 1..Len(h) :
        (h[j].ret.tag = "Panic" /\ h[j].on \in Consuming \cup NeverAborting) =>
            /\ h[j].on \in Consuming
            /\ \E i \in 1..(j - 1) : h[i].on = h[j].on /\ h[i].ret.tag = "Ready"

AbortOnlyOnViolation ==
    /\ AbortsAfterReady(history)
    /\ AbortsAfterReady(next_history)
    /\ given.tag \in NeverAborting =>
          \A i \in 1..Len(history) :
              history[i].on = given.tag /\ history[i].ret.tag # "Panic"

\* An AndThen polled through both stages without an abort, and aborting on
\* the poll after its Ready.
AbortOnlyOnViolationWitness ==
    /\ given.tag = "AndThen"
    /\ Len(history) >= 4
    /\ Ids(history[1]) = <<"a">>
    /\ Ids(history[2]) = <<"a", "f", "b">>
    /\ history[2].ret = NotReady
    /\ history[Len(history) - 1].ret.tag = "Ready"
    /\ history[Len(history)].ret.tag = "Panic"

(***************************************************************************)
(* C15  Stream blocking bridge.  Each Wait::next polls the stream until   *)
(* its first Ready and returns the payload of that Ready unchanged:       *)
(* Some(x) for an item, None for the end.  A stream that yields x1..xn    *)
(* and then its end is iterated as Some(x1)..Some(xn), None.              *)
(***************************************************************************)
StreamBridge ==
    given.tag = "StreamWait" =>
        LET items == given.stream.items
        IN \A i \in 1..Len(history) :
              /\ i <= Len(items) + 1 =>
                    /\ history[i].log # <<>>
                    /\ LET last == history[i].log[Len(history[i].log)].ret
                       IN /\ last.tag = "Ready"
                          /\ SpinsThenReturns(history[i], Len(history[i].log) - 1,
                                              last.val)
              /\ i <= Len(items) => history[i].ret = Returned(Some(items[i]))
              /\ i = Len(items) + 1 => history[i].ret = Returned(None)

StreamBridgeWitness ==
    /\ given.tag = "StreamWait"
    /\ Len(given.stream.items) = 2
    /\ given.stream.items[1] # given.stream.items[2]
    /\ Len(history) = 3
    /\ Len(history[2].log) >= 2
    /\ history[3].ret = Returned(None)

(***************************************************************************)
(* C16  State preserved on NotReady.  After a poll of Map, AndThen, Join, *)
(* Select or SelectNext that returned NotReady, the combinator holds the  *)
(* same inner futures, advanced by exactly the polls they were given, the *)
(* values it obtained so far and its unused transform or factory; it is   *)
(* not in its terminal state.                                             *)
(***************************************************************************)
\* The number of polls child `id` was given, over both histories.
PollsGiven(id) ==
    Len(SelectSeq(Flat(history) \o Flat(next_history), LAMBDA e : e.id = id))

\* A primitive future after the polls child `id` was given.
Kept(leaf, id) == [leaf EXCEPT !.polls = PollsGiven(id)]

LastNotReady(h) == h # <<>> /\ h[Len(h)].ret = NotReady

Obtained(id) == SawReady(history, Len(history), id)

StatePreserved ==
    /\ (given.tag = "Map" /\ LastNotReady(history)) =>
          IF given.future.tag = "Leaf"
          THEN driven = Map(Kept(given.future, "future"), given.f)
          ELSE driven = Map(Map(Kept(given.future.future, "future"), given.future.f),
                            given.f)
    /\ (given.tag = "AndThen" /\ LastNotReady(history)) =>
          IF Obtained("a")
          THEN /\ driven.state = "Second"
               /\ driven = AndThen_Second(Kept(call_once(given.f, given.a.v), "b"))
          ELSE /\ driven.state = "First"
               /\ driven = AndThen_First(Kept(given.a, "a"), given.f)
    /\ (given.tag = "Join" /\ LastNotReady(history)) =>
          CASE Obtained("a") /\ ~Obtained("b") ->
                  /\ driven.state = "FirstDone"
                  /\ driven = Join_FirstDone(given.a.v, Kept(given.b, "b"))
            [] ~Obtained("a") /\ Obtained("b") ->
                  /\ driven.state = "SecondDone"
                  /\ driven = Join_SecondDone(Kept(given.a, "a"), given.b.v)
            [] ~Obtained("a") /\ ~Obtained("b") ->
                  /\ driven.state = "BothRunning"
                  /\ driven = Join_BothRunning(Kept(given.a, "a"), Kept(given.b, "b"))
            [] OTHER -> FALSE
    /\ (given.tag = "Select" /\ LastNotReady(history)) =>
          /\ driven = Select(Some(<<Kept(given.state.val[1], "a"),
                                    Kept(given.state.val[2], "b")>>))
          /\ select_next = None
    /\ (given.tag = "Select" /\ LastNotReady(next_history)) =>
          IF AWon
          THEN /\ select_next.state = "B"
               /\ select_next = SelectNext_B(Kept(given.state.val[2], "b"))
          ELSE /\ select_next.state = "A"
               /\ select_next = SelectNext_A(Kept(given.state.val[1], "a"))

\* A join that holds A's value and B, polled again with B still not ready.
StatePreservedWitness ==
    /\ given.tag = "Join"
    /\ Len(history) >= 2
    /\ LastNotReady(history)
    /\ Ids(history[Len(history)]) = <<"b">>
    /\ driven.state = "FirstDone"
    /\ driven.b.polls >= 2
    /\ driven.b.polls <= driven.b.k

(***************************************************************************)
(* C17  Single-use transforms.  Map calls its transform once, in the poll *)
(* in which the inner future answers Ready, with that value, and not at   *)
(* all in a poll in which it answers NotReady.  AndThen calls its factory *)
(* once, in the poll in which A answers Ready, with A's value, and never  *)
(* polls A after that.                                                    *)
(***************************************************************************)
FCalls(c) == Len(SelectSeq(c.log, LAMBDA e : e.id = "f"))

\* Call c applies the function exactly when child `id` answers Ready in it,
\* to the value of that answer and straight after it.
AppliedOnReady(c, id) ==
    IF c.log # <<>> /\ c.log[1].id = id /\ c.log[1].ret.tag = "Ready"
    THEN /\ FCalls(c) = 1
         /\ c.log[2] = Ev("f", Called(c.log[1].ret.val))
    ELSE FCalls(c) = 0

SingleUse ==
    /\ given.tag = "Map" =>
          /\ \A i \in 1..Len(history) : AppliedOnReady(history[i], "future")
          /\ Len(Answers(Flat(history), "f", "Called")) <= 1
    /\ given.tag = "AndThen" =>
          /\ \A i \in 1..Len(history) : AppliedOnReady(history[i], "a")
          /\ Len(Answers(Flat(history), "f", "Called")) <= 1
          /\ \A i \in 1..Len(history) : \A j \in (i + 1)..Len(history) :
                FCalls(history[i]) = 1 =>
                    \A n \in 1..Len(history[j].log) : history[j].log[n].id # "a"

\* An AndThen whose A and B were both not ready at first, polled to its Ready.
SingleUseWitness ==
    /\ given.tag = "AndThen"
    /\ given.a.k >= 1
    /\ given.f.m >= 1
    /\ Resolved(history)
    /\ \E i \in 2..Len(history) :
          /\ Ids(history[i]) = <<"a", "f", "b">>
          /\ history[i].ret = NotReady

(***************************************************************************)
(* C18  InfiniteStream::and_then makes no idle round trip.  If the source *)
(* is not ready k times before its item and the future built from the     *)
(* item is not ready m times before Ready(v), the combinator returns      *)
(* NotReady exactly k + m times and then Ready(v); the future gets its    *)
(* first poll in the call that took the item; and the poll after an       *)
(* emission polls the source.                                             *)
(***************************************************************************)
\* The source's not-ready polls before its first item.
SourceDelay(sched) ==
    (CHOOSE i \in 1..Len(sched) : sched[i] /\ \A j \in 1..(i - 1) : ~sched[j]) - 1

NoIdleRoundTrip ==
    given.tag = "StreamAndThen" =>
        LET k == SourceDelay(given.stream.sched)
            first == call_factory(given.f, 1)
            m == first.k
            flat == Flat(history)
        IN /\ \A i \in 1..Len(history) :
                 /\ i <= k + m => history[i].ret = NotReady
                 /\ i = k + m + 1 => history[i].ret = Ready(first.v)
                 /\ i = k + 1 => Ids(history[i]) = <<"stream", "f", "self", "future">>
                 /\ (i = 1 \/ (i > 1 /\ history[i - 1].ret.tag = "Ready")) =>
                       history[i].log[1].id = "stream"
                 /\ (history[i].log[1].id = "stream"
                        /\ history[i].log[1].ret.tag = "Ready")
                       => Ids(history[i]) = <<"stream", "f", "self", "future">>
           /\ Len(SelectSeq(Returns(history), LAMBDA r : r = NotReady))
                 = Len(Answers(flat, "stream", "NotReady"))
                    + Len(Answers(flat, "future", "NotReady"))

NoIdleRoundTripWitness ==
    /\ given.tag = "StreamAndThen"
    /\ SourceDelay(given.stream.sched) >= 1
    /\ call_factory(given.f, 1).k >= 1
    /\ Len(Emitted(history)) = 1
    /\ Len(history) >= 2
    /\ history[Len(history) - 1].ret.tag = "Ready"
    /\ history[Len(history)].log[1].id = "stream"

(***************************************************************************)
(* C19  Bounded work per poll.  One poll of a combinator polls each of    *)
(* its inner futures or streams at most once.  One poll of the stream     *)
(* AndThen calls itself at most once, polls the source at most once, and  *)
(* when it calls itself polls the new future exactly once.                *)
(***************************************************************************)
Times(c, id) == Len(SelectSeq(c.log, LAMBDA e : e.id = id))

BoundedCall(c) ==
    c.on \in Consuming \cup NeverAborting =>
        /\ \A n \in 1..Len(c.log) : Times(c, c.log[n].id) = 1
        /\ c.on = "StreamAndThen" =>
              /\ Times(c, "self") = Times(c, "f")
              /\ Times(c, "self") = 1 =>
                    /\ Times(c, "stream") = 1
                    /\ Times(c, "future") = 1

BoundedWork ==
    /\ \A i \in 1..Len(history) : BoundedCall(history[i])
    /\ \A i \in 1..Len(next_history) : BoundedCall(next_history[i])

\* A stream AndThen that called itself in two of its polls.
BoundedWorkWitness ==
    /\ given.tag = "StreamAndThen"
    /\ \E i \in 1..Len(history) : \E j \in 1..Len(history) :
          /\ i < j
          /\ Times(history[i], "self") = 1
          /\ Times(history[j], "self") = 1
          /\ history[j].ret = NotReady

(***************************************************************************)
(* C20  Fuse is transparent before resolution.  Up to and including its   *)
(* first Ready, every poll of a Fuse polls the inner future exactly once  *)
(* and returns what the inner future answered, so the fused future        *)
(* resolves on the same poll, with the same value, as the future polled   *)
(* on its own.                                                            *)
(***************************************************************************)
FuseTransparency ==
    given.tag = "Fuse" =>
        LET unfused == Polls(given.future.val, Len(history))
        IN \A i \in 1..Len(history) :
              (\A j \in 1..(i - 1) : unfused[j] = NotReady) =>
                  /\ history[i].log = <<Ev("future", unfused[i])>>
                  /\ history[i].ret = unfused[i]

FuseTransparencyWitness ==
    /\ given.tag = "Fuse"
    /\ given.future.val.k >= 2
    /\ Len(history) = given.future.val.k + 1
    /\ history[Len(history)].ret = Ready(given.future.val.v)
    /\ history[Len(history) - 1].log = <<Ev("future", NotReady)>>

====
